---- MODULE Spec2Model ----
(***************************************************************************)
(* A model of convert.py: the Xen OVF envelope reader (OvfReader), the     *)
(* required-field check, the disk conversion loop, and the mapping of the  *)
(* VM description to an oVirt creation request.                            *)
(*                                                                         *)
(* The envelope is revealed one child element at a time: every loop of the *)
(* reader (`for e in elem`) takes its next child from a bounded alphabet,  *)
(* so the behaviours of Spec are the runs of main() over every document of *)
(* at most MaxElems dispatched elements.  The two sections the reader      *)
(* consults by absolute XPath (DiskSection, References) are fixed at the   *)
(* start, in `ovf`.                                                        *)
(*                                                                         *)
(* Python values: None is the empty tuple and a present value x is <<x>>;  *)
(* a str that the program inspects character by character is a tuple of   *)
(* one-character strings; a keyword of the platform string that the        *)
(* program only compares as a whole is one token of such a tuple.          *)
(***************************************************************************)
EXTENDS Integers, Sequences, FiniteSets, TLC

VARIABLES
    pc,             \* the line main() has reached
    ovf,            \* OvfReader._ovf: the document's DiskSection and References content
    vm,             \* OvfReader._vm, later main's vm
    walked,         \* history: the elements handed to handle_elem so far, in order
    err,            \* the exception that ended the run (NoError while running)
    skip_conversion,\* convert_disks' parameter (args.skip_disk_conversion)
    next_disk,      \* convert_disks: the index in vm.disks of the loop's next disk
    toolCalls,      \* history: the subprocess.call invocations, in order
    apiCalls,       \* history: the calls made on the oVirt connection, in order
    args            \* args.cluster and args.name, once main has read them

vars == <<pc, ovf, vm, walked, err, skip_conversion, next_disk, toolCalls, apiCalls, args>>

----------------------------------------------------------------------------
(* Bounds of the model *)

\* documents of at most this many dispatched elements
MaxElems == 6
\* DiskSection / References of at most this many descriptors (SpecResolve)
MaxDescriptors == 2
\* VMs of at most this many disks (SpecConvert)
MaxDisks == 2
\* target names of at most this many characters (SpecName)
MaxNameLen == 3
MaxPairs == 3

----------------------------------------------------------------------------
(* Python values *)

None == <<>>
Some(x) == <<x>>

NoError == [type |-> "", msg |-> "", args |-> <<>>]
Error(type, msg, values) == [type |-> type, msg |-> msg, args |-> values]

\* what a handler leaves behind: the VM, the exception it raised (if any), and
\* the nested loop it has entered (if any)
Return(v) == [vm |-> v, err |-> NoError, enter |-> ""]
Raise(v, e) == [vm |-> v, err |-> e, enter |-> ""]
Enter(v, loop) == [vm |-> v, err |-> NoError, enter |-> loop]

\* xs[0] of a Python list
IndexError == Error("IndexError", "list index out of range", <<>>)

Digits == {"0", "1", "2", "3", "4", "5", "6", "7", "8", "9"}

DigitValue(c) ==
    CASE c = "0" -> 0 [] c = "1" -> 1 [] c = "2" -> 2 [] c = "3" -> 3
      [] c = "4" -> 4 [] c = "5" -> 5 [] c = "6" -> 6 [] c = "7" -> 7
      [] c = "8" -> 8 [] c = "9" -> 9

RECURSIVE DecimalValue(_)
DecimalValue(s) ==
    IF s = <<>> THEN 0
    ELSE 10 * DecimalValue(SubSeq(s, 1, Len(s) - 1)) + DigitValue(s[Len(s)])

\* int(text): an optional sign and at least one decimal digit
IsIntLiteral(s) ==
    LET body == IF s # <<>> /\ s[1] \in {"-", "+"} THEN Tail(s) ELSE s
    IN  body # <<>> /\ \A i \in 1..Len(body) : body[i] \in Digits

int(s) ==
    IF s # <<>> /\ s[1] = "-" THEN 0 - DecimalValue(Tail(s))
    ELSE IF s # <<>> /\ s[1] = "+" THEN DecimalValue(Tail(s))
    ELSE DecimalValue(s)

ValueError(s) == Error("ValueError", "invalid literal for int() with base 10", <<s>>)

----------------------------------------------------------------------------
(* Namespaces, tags, resource types *)

XML_NAMESPACES ==
    [ovf    |-> "http://schemas.dmtf.org/ovf/envelope/1",
     ovirt  |-> "http://www.ovirt.org/ovf",
     rasd   |-> "http://schemas.dmtf.org/wbem/wscim/1/cim-schema/2/CIM_ResourceAllocationSettingData",
     vssd   |-> "http://schemas.dmtf.org/wbem/wscim/1/cim-schema/2/CIM_VirtualSystemSettingData",
     xsi    |-> "http://www.w3.org/2001/XMLSchema-instance",
     xenovf |-> "http://schemas.citrix.com/ovf/envelope/1"]

\* "{%s}%s" % (uri, val): the qualified tag, as the pair of its two parts
prefix_ns(ns, val) == <<XML_NAMESPACES[ns], val>>

ResourceType_OTHER == 0
CPU == 3
MEMORY == 4
ETHERNET == 10
NET_OTHER == 11
FLOPPY_DRIVE == 14
CD_DRIVE == 15
DVD_DRIVE == 16
DISK_DRIVE == 17
STORAGE_EXTENT == 19

MEGABYTES == "byte * 2^20"

----------------------------------------------------------------------------
(* Elements of the document.  Every element has the same fields; the ones  *)
(* an element does not carry are empty.  rasd and value hold what the      *)
(* XPath queries of the handlers return for the element: the list of       *)
(* matching text nodes.                                                    *)

NoRasd ==
    [ResourceType |-> <<>>, VirtualQuantity |-> <<>>, AllocationUnits |-> <<>>,
     InstanceID |-> <<>>, ElementName |-> <<>>]

Element(tag) ==
    [tag |-> tag, text |-> None, rasd |-> NoRasd, Name |-> None, Value |-> <<>>]

TextElement(tag, text) == [Element(tag) EXCEPT !.text = Some(text)]

Item(rasd) == [Element(prefix_ns("ovf", "Item")) EXCEPT !.rasd = rasd]

CpuItem(quantity) ==
    Item([NoRasd EXCEPT !.ResourceType = <<<<"3">>>>, !.VirtualQuantity = <<quantity>>])

MemoryItem(quantity, units) ==
    Item([NoRasd EXCEPT !.ResourceType = <<<<"4">>>>, !.VirtualQuantity = <<quantity>>,
                        !.AllocationUnits = <<units>>])

StorageItem(instance, name) ==
    Item([NoRasd EXCEPT !.ResourceType = <<<<"1", "9">>>>, !.InstanceID = <<instance>>,
                        !.ElementName = <<name>>])

OtherItem(rtype) == Item([NoRasd EXCEPT !.ResourceType = <<rtype>>])

OtherConfig(name, value) ==
    [Element(prefix_ns("xenovf", "VirtualSystemOtherConfigurationData"))
        EXCEPT !.Name = Some(name), !.Value = value]

IsItem(e) == e.tag = prefix_ns("ovf", "Item")
ResourceTypeOf(e) == int(e.rasd.ResourceType[1])
IsCpuItem(e) == IsItem(e) /\ ResourceTypeOf(e) = CPU
IsMemoryItem(e) == IsItem(e) /\ ResourceTypeOf(e) = MEMORY
IsStorageItem(e) == IsItem(e) /\ ResourceTypeOf(e) = STORAGE_EXTENT
IsName(e) == e.tag = prefix_ns("ovf", "Name")
IsPlatform(e) ==
    e.tag = prefix_ns("xenovf", "VirtualSystemOtherConfigurationData") /\ e.Name = Some("platform")

----------------------------------------------------------------------------
(* class VM *)

VM ==
    [name |-> None, cluster |-> None, cpu_count |-> None, cores_pre_socket |-> 1,
     memory_bytes |-> None, disks |-> <<>>]

----------------------------------------------------------------------------
(* Leaf handlers of OvfReader.  Each takes the element, the VM being built *)
(* and the document sections, and returns the VM it leaves and the         *)
(* exception it raises.                                                    *)

noop_handler(elem, v) == Return(v)

ignore_and_warn(elem, v) == Return(v)

set_name(name_elem, v) == Return([v EXCEPT !.name = name_elem.text])

\* mutant: the duplicate check is missing, a second CPU item overwrites the first
_read_hw_cpu_overwrite(elem, v) ==
    IF elem.rasd.VirtualQuantity = <<>> THEN Raise(v, IndexError)
    ELSE IF ~IsIntLiteral(elem.rasd.VirtualQuantity[1])
    THEN Raise(v, ValueError(elem.rasd.VirtualQuantity[1]))
    ELSE Return([v EXCEPT !.cpu_count = Some(int(elem.rasd.VirtualQuantity[1]))])

_read_hw_cpu(elem, v) ==
    IF v.cpu_count # None
    THEN Raise(v, Error("RuntimeError", "OVF contains multiple CPU elements.", <<>>))
    ELSE IF elem.rasd.VirtualQuantity = <<>> THEN Raise(v, IndexError)
    ELSE IF ~IsIntLiteral(elem.rasd.VirtualQuantity[1])
    THEN Raise(v, ValueError(elem.rasd.VirtualQuantity[1]))
    ELSE Return([v EXCEPT !.cpu_count = Some(int(elem.rasd.VirtualQuantity[1]))])

\* mutant: megabytes are converted with one factor of 1024 only
_read_hw_memory_kilobytes(elem, v) ==
    IF v.memory_bytes # None
    THEN Raise(v, Error("RuntimeError", "OVF contains multiple memory elements.", <<>>))
    ELSE IF elem.rasd.AllocationUnits = <<>> THEN Raise(v, IndexError)
    ELSE IF elem.rasd.AllocationUnits[1] # MEGABYTES
    THEN Raise(v, Error("RuntimeError", "Memory units are not MB", <<>>))
    ELSE IF elem.rasd.VirtualQuantity = <<>> THEN Raise(v, IndexError)
    ELSE IF ~IsIntLiteral(elem.rasd.VirtualQuantity[1])
    THEN Raise(v, ValueError(elem.rasd.VirtualQuantity[1]))
    ELSE LET mem_mb == int(elem.rasd.VirtualQuantity[1])
         IN  Return([v EXCEPT !.memory_bytes = Some(mem_mb * 1024)])

\* mutant: the units are not checked
_read_hw_memory_any_units(elem, v) ==
    IF v.memory_bytes # None
    THEN Raise(v, Error("RuntimeError", "OVF contains multiple memory elements.", <<>>))
    ELSE IF elem.rasd.VirtualQuantity = <<>> THEN Raise(v, IndexError)
    ELSE IF ~IsIntLiteral(elem.rasd.VirtualQuantity[1])
    THEN Raise(v, ValueError(elem.rasd.VirtualQuantity[1]))
    ELSE LET mem_mb == int(elem.rasd.VirtualQuantity[1])
         IN  Return([v EXCEPT !.memory_bytes = Some(mem_mb * 1024 * 1024)])

_read_hw_memory(elem, v) ==
    IF v.memory_bytes # None
    THEN Raise(v, Error("RuntimeError", "OVF contains multiple memory elements.", <<>>))
    ELSE IF elem.rasd.AllocationUnits = <<>> THEN Raise(v, IndexError)
    ELSE IF elem.rasd.AllocationUnits[1] # MEGABYTES
    THEN Raise(v, Error("RuntimeError", "Memory units are not MB", <<>>))
    ELSE IF elem.rasd.VirtualQuantity = <<>> THEN Raise(v, IndexError)
    ELSE IF ~IsIntLiteral(elem.rasd.VirtualQuantity[1])
    THEN Raise(v, ValueError(elem.rasd.VirtualQuantity[1]))
    ELSE LET mem_mb == int(elem.rasd.VirtualQuantity[1])
         IN  Return([v EXCEPT !.memory_bytes = Some(mem_mb * 1024 * 1024)])

\* mutant: the predicate on diskId is lost, every Disk matches
XPathDisk_any(doc, disk_id) == doc.disks

\* self._ovf.xpath("/ovf:Envelope/ovf:DiskSection/ovf:Disk[@ovf:diskId='...']"):
\* the Disk descriptors with that diskId, in document order
XPathDisk(doc, disk_id) == SelectSeq(doc.disks, LAMBDA d : d.diskId = disk_id)

\* self._ovf.xpath("/ovf:Envelope/ovf:References/ovf:File[@ovf:id='...']")
XPathFile(doc, file_id) == SelectSeq(doc.files, LAMBDA f : f.id = file_id)

\* the dict _read_hw_disk appends (no 'qcow_file' key yet: None)
DiskRecord(disk_id, name, disk_elem, file_elem) ==
    [id |-> disk_id, name |-> name, bootable |-> disk_elem.isBootable \in {"true", "True"},
     file |-> file_elem.href, qcow_file |-> None]

\* mutant: an item whose Disk or File is not declared is skipped, not an error
_read_hw_disk_skip_missing(elem, v, doc) ==
    IF elem.rasd.InstanceID = <<>> THEN Raise(v, IndexError)
    ELSE LET disk_id == elem.rasd.InstanceID[1]
             disks == XPathDisk(doc, disk_id)
         IN  IF disks = <<>> THEN Return(v)
             ELSE LET disk_elem == disks[1]
                      files == XPathFile(doc, disk_elem.fileRef)
                  IN  IF files = <<>> THEN Return(v)
                      ELSE IF elem.rasd.ElementName = <<>> THEN Raise(v, IndexError)
                      ELSE Return([v EXCEPT !.disks =
                              Append(@, DiskRecord(disk_id, elem.rasd.ElementName[1],
                                                   disk_elem, files[1]))])

_read_hw_disk(elem, v, doc) ==
    IF elem.rasd.InstanceID = <<>> THEN Raise(v, IndexError)
    ELSE LET disk_id == elem.rasd.InstanceID[1]
             disks == XPathDisk(doc, disk_id)
         IN  IF disks = <<>> THEN Raise(v, IndexError)
             ELSE LET disk_elem == disks[1]
                      files == XPathFile(doc, disk_elem.fileRef)
                  IN  IF files = <<>> THEN Raise(v, IndexError)
                      ELSE IF elem.rasd.ElementName = <<>> THEN Raise(v, IndexError)
                      ELSE Return([v EXCEPT !.disks =
                              Append(@, DiskRecord(disk_id, elem.rasd.ElementName[1],
                                                   disk_elem, files[1]))])

\* str.split(sep) on a tuple of tokens
RECURSIVE split(_, _)
split(s, sep) ==
    IF \A i \in 1..Len(s) : s[i] # sep THEN <<s>>
    ELSE LET i == CHOOSE j \in 1..Len(s) : s[j] = sep /\ \A k \in 1..(j - 1) : s[k] # sep
         IN  <<SubSeq(s, 1, i - 1)>> \o split(SubSeq(s, i + 1, Len(s)), sep)

\* str.split(sep, maxsplit=1)
split_once(s, sep) ==
    IF \A i \in 1..Len(s) : s[i] # sep THEN <<s>>
    ELSE LET i == CHOOSE j \in 1..Len(s) : s[j] = sep /\ \A k \in 1..(j - 1) : s[k] # sep
         IN  <<SubSeq(s, 1, i - 1), SubSeq(s, i + 1, Len(s))>>

\* the loop of _read_hw_platform over the parts of the Value string
RECURSIVE ReadPlatformParts(_, _)
\* mutant: the key of the pair is not compared with 'cores-per-socket'
ReadPlatformParts_any_key(parts, v) ==
    IF parts = <<>> THEN Return(v)
    ELSE LET p == Head(parts)
             kv == split_once(p, "=")
         IN  IF p = <<>> THEN ReadPlatformParts(Tail(parts), v)
             ELSE IF Len(kv) # 2
             THEN Raise(v, Error("ValueError", "not enough values to unpack", <<>>))
             ELSE IF ~IsIntLiteral(kv[2]) THEN Raise(v, ValueError(kv[2]))
             ELSE ReadPlatformParts(Tail(parts),
                                    [v EXCEPT !.cores_pre_socket = int(kv[2])])

ReadPlatformParts(parts, v) ==
    IF parts = <<>> THEN Return(v)
    ELSE LET p == Head(parts)
             kv == split_once(p, "=")
         IN  IF p = <<>> THEN ReadPlatformParts(Tail(parts), v)
             ELSE IF Len(kv) # 2
             THEN Raise(v, Error("ValueError", "not enough values to unpack", <<>>))
             ELSE IF kv[1] = <<"cores-per-socket">>
             THEN IF ~IsIntLiteral(kv[2]) THEN Raise(v, ValueError(kv[2]))
                  ELSE ReadPlatformParts(Tail(parts),
                                         [v EXCEPT !.cores_pre_socket = int(kv[2])])
             ELSE ReadPlatformParts(Tail(parts), v)

_read_hw_platform(elem, v) ==
    IF elem.Value = <<>> THEN Raise(v, IndexError)
    ELSE ReadPlatformParts(split(elem.Value[1], ";"), v)

----------------------------------------------------------------------------
(* The dispatcher and the three dispatch tables of each level.  A table   *)
(* maps a key to the name of its handler.                                  *)

envelope_handlers ==
    (prefix_ns("ovf", "References") :> "noop_handler")
    @@ (prefix_ns("ovf", "DiskSection") :> "noop_handler")
    @@ (prefix_ns("ovf", "NetworkSection") :> "noop_handler")
    @@ (prefix_ns("ovf", "StartupSection") :> "ignore_and_warn")
    @@ (prefix_ns("ovf", "VirtualSystem") :> "_read_ovf_virtual_system")

virtual_system_handlers ==
    (prefix_ns("ovf", "Info") :> "ignore_and_warn")
    @@ (prefix_ns("ovf", "Name") :> "set_name")
    @@ (prefix_ns("ovf", "OperatingSystemSection") :> "ignore_and_warn")
    @@ (prefix_ns("ovf", "VirtualHardwareSection") :> "_read_hardware")

hardware_handlers ==
    (prefix_ns("ovf", "Info") :> "ignore_and_warn")
    @@ (prefix_ns("ovf", "System") :> "ignore_and_warn")
    @@ (prefix_ns("ovf", "Item") :> "handle_item")
    @@ (prefix_ns("xenovf", "VirtualSystemOtherConfigurationData") :> "handle_other_config")

item_handlers ==
    (CPU :> "_read_hw_cpu")
    @@ (MEMORY :> "_read_hw_memory")
    @@ (ETHERNET :> "ignore_and_warn")
    @@ (CD_DRIVE :> "ignore_and_warn")
    @@ (DVD_DRIVE :> "ignore_and_warn")
    @@ (STORAGE_EXTENT :> "_read_hw_disk")

other_config_handlers ==
    ("HVM_boot_params" :> "ignore_and_warn")
    @@ ("HVM_boot_policy" :> "ignore_and_warn")
    @@ ("platform" :> "_read_hw_platform")
    @@ ("hardware_platform_version" :> "noop_handler")

\* mapper(elem): the key of the element, or the exception the mapper raises
Key(k) == [key |-> k, err |-> NoError]
NoKey(e) == [key |-> <<>>, err |-> e]

mapper(which, elem) ==
    CASE which = "tag" -> Key(elem.tag)
      [] which = "ResourceType" ->
            IF elem.rasd.ResourceType = <<>> THEN NoKey(IndexError)
            ELSE IF ~IsIntLiteral(elem.rasd.ResourceType[1])
            THEN NoKey(ValueError(elem.rasd.ResourceType[1]))
            ELSE Key(int(elem.rasd.ResourceType[1]))
      [] which = "Name" ->
            IF elem.Name = None THEN NoKey(Error("KeyError", "Name", <<>>))
            ELSE Key(elem.Name[1])

RECURSIVE handle_elem(_, _, _, _, _)
RECURSIVE call(_, _, _, _)

\* handlers[key](elem)
call(handler, elem, v, doc) ==
    CASE handler = "noop_handler" -> noop_handler(elem, v)
      [] handler = "ignore_and_warn" -> ignore_and_warn(elem, v)
      [] handler = "set_name" -> set_name(elem, v)
      [] handler = "_read_ovf_virtual_system" -> Enter(v, "read_virtual_system")
      [] handler = "_read_hardware" -> Enter(v, "read_hardware")
      [] handler = "handle_item" -> handle_elem(elem, item_handlers, "ResourceType", v, doc)
      [] handler = "handle_other_config" ->
            handle_elem(elem, other_config_handlers, "Name", v, doc)
      [] handler = "_read_hw_cpu" -> _read_hw_cpu(elem, v)
      [] handler = "_read_hw_memory" -> _read_hw_memory(elem, v)
      [] handler = "_read_hw_disk" -> _read_hw_disk(elem, v, doc)
      [] handler = "_read_hw_platform" -> _read_hw_platform(elem, v)

\* mutant: the handler is looked up without the test for an unknown key
handle_elem_strict(elem, handlers, which, v, doc) ==
    LET k == mapper(which, elem)
    IN  IF k.err # NoError THEN Raise(v, k.err)
        ELSE IF k.key \notin DOMAIN handlers
        THEN Raise(v, Error("KeyError", "unknown key", <<k.key>>))
        ELSE call(handlers[k.key], elem, v, doc)

handle_elem(elem, handlers, which, v, doc) ==
    LET k == mapper(which, elem)
    IN  IF k.err # NoError THEN Raise(v, k.err)
        ELSE IF k.key \notin DOMAIN handlers THEN Return(v)
        ELSE call(handlers[k.key], elem, v, doc)

\* mutant: the memory is not checked
_check_required_fields_no_memory(v) ==
    IF v.name = None THEN Error("RuntimeError", "Name is missing!", <<>>)
    ELSE IF v.cpu_count = None
    THEN Error("RuntimeError", "CPU count information is missing!", <<>>)
    ELSE NoError

\* mutant: the memory is checked before the CPU count
_check_required_fields_memory_first(v) ==
    IF v.name = None THEN Error("RuntimeError", "Name is missing!", <<>>)
    ELSE IF v.memory_bytes = None
    THEN Error("RuntimeError", "Memory information is missing!", <<>>)
    ELSE IF v.cpu_count = None
    THEN Error("RuntimeError", "CPU count information is missing!", <<>>)
    ELSE NoError

_check_required_fields(v) ==
    IF v.name = None THEN Error("RuntimeError", "Name is missing!", <<>>)
    ELSE IF v.cpu_count = None
    THEN Error("RuntimeError", "CPU count information is missing!", <<>>)
    ELSE IF v.memory_bytes = None
    THEN Error("RuntimeError", "Memory information is missing!", <<>>)
    ELSE NoError

----------------------------------------------------------------------------
(* convert_disks, check_cluster_exists, add_vm_to_ovirt *)

\* mutant: the artifact is named after the source file
out_file_of_source(disk) == <<disk.file, ".qcow2">>

\* disk["id"] + ".qcow2", as the pair of the two strings
out_file(disk) == <<disk.id, ".qcow2">>

\* the argument vector of subprocess.call
qemu_img(disk) ==
    <<"qemu-img", "convert", "-f", "vpc", "-O", "qcow2", disk.file, out_file(disk)>>

AsciiLetters ==
    {"a", "b", "c", "d", "e", "f", "g", "h", "i", "j", "k", "l", "m",
     "n", "o", "p", "q", "r", "s", "t", "u", "v", "w", "x", "y", "z",
     "A", "B", "C", "D", "E", "F", "G", "H", "I", "J", "K", "L", "M",
     "N", "O", "P", "Q", "R", "S", "T", "U", "V", "W", "X", "Y", "Z"}

\* characters outside ASCII that \w matches in a str pattern (re.UNICODE is the
\* default for str patterns): letters and digits of any script.  Two of them,
\* named by their code points.
UnicodeWordChars == {"U+00E9", "U+0663"}

\* \w
WordChars == AsciiLetters \cup Digits \cup {"_"} \cup UnicodeWordChars

\* VM_NAME_PATTERN.fullmatch(name) is not None, for VM_NAME_PATTERN = "[\w.-]*"
VM_NAME_PATTERN_fullmatch(name) ==
    \A i \in 1..Len(name) : name[i] \in WordChars \cup {".", "-"}

\* a // b of Python (floor division), b # 0
FloorDiv(a, b) ==
    IF b > 0 THEN a \div b ELSE (0 - a) \div (0 - b)

\* the sdk.types.Vm that add_vm_to_ovirt builds
VmRequest(vm_def) ==
    [name |-> vm_def.name[1],
     cluster |-> vm_def.cluster[1],
     template |-> "00000000-0000-0000-0000-000000000000",
     topology |-> [sockets |-> FloorDiv(vm_def.cpu_count[1], vm_def.cores_pre_socket),
                   cores |-> vm_def.cores_pre_socket,
                   threads |-> 1],
     memory |-> vm_def.memory_bytes[1]]

INVALID_NAME ==
    "Vm name can only contain alpha-numeric characters, '_', '-' or '.'. Vm name: %r"

\* mutant: the name is not matched against the pattern
add_vm_to_ovirt_error_unchecked(vm_def) ==
    IF vm_def.cores_pre_socket = 0
    THEN Error("ZeroDivisionError", "integer division or modulo by zero", <<>>)
    ELSE NoError

\* the exception add_vm_to_ovirt raises before it calls vms_service.add, if any
add_vm_to_ovirt_error(vm_def) ==
    IF ~VM_NAME_PATTERN_fullmatch(vm_def.name[1])
    THEN Error("RuntimeError", INVALID_NAME, <<vm_def.name[1]>>)
    ELSE IF vm_def.cores_pre_socket = 0
    THEN Error("ZeroDivisionError", "integer division or modulo by zero", <<>>)
    ELSE NoError

----------------------------------------------------------------------------
(* Inputs: the alphabets the documents are made of, the command line, the  *)
(* answers of the environment.                                             *)

SeqsUpTo(S, n) == UNION {[1..k -> S] : k \in 0..n}

\* References has a handler (noop_handler); EulaSection, ProductSection and
\* vssd:Caption have none
EnvelopeChildren ==
    {Element(prefix_ns("ovf", "References")),
     Element(prefix_ns("ovf", "EulaSection")),
     Element(prefix_ns("ovf", "VirtualSystem"))}

EnvelopeNames == {<<"v", "m", "1">>, <<"v", "m", " ", "1">>}

VirtualSystemChildren ==
    {Element(prefix_ns("ovf", "ProductSection")),
     Element(prefix_ns("ovf", "VirtualHardwareSection"))}
    \cup {TextElement(prefix_ns("ovf", "Name"), n) : n \in EnvelopeNames}

CpuItems == {CpuItem(<<"4">>), CpuItem(<<"3">>)}

MemoryItems ==
    {MemoryItem(<<"5", "1", "2">>, MEGABYTES),
     MemoryItem(<<"1">>, MEGABYTES),
     MemoryItem(<<"5", "1", "2">>, "MegaBytes")}

StorageItems == {StorageItem(id, "Hard disk") : id \in {"1", "2", "3"}}

\* ETHERNET has a handler (ignore_and_warn); DISK_DRIVE has none
IgnoredItems == {OtherItem(<<"1", "0">>), OtherItem(<<"1", "7">>)}

PlatformValues ==
    {<<"cores-per-socket", "=", "2", ";", "hardware_platform_version", "=", "9">>,
     <<"nx", "=", "true", ";", "cores-per-socket", "=", "0", ";">>}

PlatformConfigs == {OtherConfig("platform", <<p>>) : p \in PlatformValues}

\* "vgpu_pci" has no handler
IgnoredConfigs == {OtherConfig("vgpu_pci", <<<<>>>>)}

HardwareChildren ==
    {Element(prefix_ns("vssd", "Caption"))}
    \cup CpuItems \cup MemoryItems \cup StorageItems \cup IgnoredItems
    \cup PlatformConfigs \cup IgnoredConfigs

Disk(diskId, fileRef, isBootable) ==
    [diskId |-> diskId, fileRef |-> fileRef, isBootable |-> isBootable]

File(id, href) == [id |-> id, href |-> href]

\* the sections of the documents of Spec: Disk "1" resolves, Disk "2" names a
\* File that is not declared, and no Disk is declared for "3"
XenSections ==
    [disks |-> <<Disk("1", "f1", "True"), Disk("2", "f9", "false")>>,
     files |-> <<File("f1", "disk1.vhd")>>]

\* --skip-disk-conversion, --cluster, --name
Clusters == {"cluster-1"}
NameArgs == {None, Some(<<>>), Some(<<"v", "m", "2">>), Some(<<"v", "m", "/", "2">>)}

\* what qemu-img can exit with
ExitStatuses == {0, 1}

----------------------------------------------------------------------------
(* The run of main() *)

\* the command line before main reads args.cluster and args.name
NoArgs == [cluster |-> None, name |-> None]

Init ==
    /\ pc = "read_envelope"
    /\ ovf = XenSections
    /\ vm = VM
    /\ walked = <<>>
    /\ err = NoError
    /\ skip_conversion = FALSE
    /\ next_disk = 1
    /\ toolCalls = <<>>
    /\ apiCalls = <<>>
    /\ args = NoArgs

Running == err = NoError

\* one iteration of a reader loop: handle_elem(e, handlers[, mapper])
Dispatch(e, handlers, which) ==
    LET r == handle_elem(e, handlers, which, vm, ovf)
    IN  /\ walked' = Append(walked, e)
        /\ vm' = r.vm
        /\ err' = r.err
        /\ pc' = IF r.err = NoError /\ r.enter # "" THEN r.enter ELSE pc
        /\ UNCHANGED <<ovf, skip_conversion, next_disk, toolCalls, apiCalls, args>>

\* _read_ovf_envelope: the next child of the Envelope
ReadOvfEnvelope(children) ==
    /\ Running /\ pc = "read_envelope" /\ Len(walked) < MaxElems
    /\ \E e \in children : Dispatch(e, envelope_handlers, "tag")

\* _read_ovf_virtual_system: the next child of the VirtualSystem
ReadOvfVirtualSystem(children) ==
    /\ Running /\ pc = "read_virtual_system" /\ Len(walked) < MaxElems
    /\ \E e \in children : Dispatch(e, virtual_system_handlers, "tag")

\* _read_hardware: the next child of the VirtualHardwareSection
ReadHardware(children) ==
    /\ Running /\ pc = "read_hardware" /\ Len(walked) < MaxElems
    /\ \E e \in children : Dispatch(e, hardware_handlers, "tag")

\* the VirtualHardwareSection has no more children: back in the loop of
\* _read_ovf_virtual_system
EndHardware ==
    /\ Running /\ pc = "read_hardware"
    /\ pc' = "read_virtual_system"
    /\ UNCHANGED <<ovf, vm, walked, err, skip_conversion, next_disk, toolCalls, apiCalls, args>>

\* the VirtualSystem has no more children: back in the loop of _read_ovf_envelope
EndVirtualSystem ==
    /\ Running /\ pc = "read_virtual_system"
    /\ pc' = "read_envelope"
    /\ UNCHANGED <<ovf, vm, walked, err, skip_conversion, next_disk, toolCalls, apiCalls, args>>

\* the Envelope has no more children: read_xen_ovf checks the required fields
\* and returns the VM, and main calls convert_disks
EndEnvelope ==
    /\ Running /\ pc = "read_envelope"
    /\ LET e == _check_required_fields(vm)
       IN  IF e # NoError
           THEN /\ err' = e
                /\ pc' = "check_required_fields"
                /\ UNCHANGED skip_conversion
           ELSE /\ err' = NoError
                /\ pc' = "convert_disks"
                /\ \E skip \in BOOLEAN : skip_conversion' = skip
    /\ next_disk' = 1
    /\ UNCHANGED <<ovf, vm, walked, toolCalls, apiCalls, args>>

\* mutant: the exit status of qemu-img is not looked at
ConvertDisk_ignores_status ==
    /\ Running /\ pc = "convert_disks" /\ next_disk <= Len(vm.disks)
    /\ LET disk == vm.disks[next_disk]
       IN  /\ vm' = [vm EXCEPT !.disks[next_disk].qcow_file = Some(out_file(disk))]
           /\ next_disk' = next_disk + 1
           /\ IF skip_conversion THEN UNCHANGED toolCalls
              ELSE \E status \in ExitStatuses :
                      toolCalls' = Append(toolCalls, [argv |-> qemu_img(disk), status |-> status])
    /\ UNCHANGED <<pc, ovf, walked, err, skip_conversion, apiCalls, args>>

\* one iteration of the loop of convert_disks
ConvertDisk ==
    /\ Running /\ pc = "convert_disks" /\ next_disk <= Len(vm.disks)
    /\ LET disk == vm.disks[next_disk]
           converted == [vm EXCEPT !.disks[next_disk].qcow_file = Some(out_file(disk))]
       IN  IF skip_conversion
           THEN /\ vm' = converted
                /\ next_disk' = next_disk + 1
                /\ UNCHANGED <<toolCalls, err>>
           ELSE \E status \in ExitStatuses :
                /\ toolCalls' = Append(toolCalls, [argv |-> qemu_img(disk), status |-> status])
                /\ IF status # 0
                   THEN /\ err' = Error("RuntimeError", "Disk conversion failed", <<>>)
                        /\ UNCHANGED <<vm, next_disk>>
                   ELSE /\ vm' = converted
                        /\ next_disk' = next_disk + 1
                        /\ UNCHANGED err
    /\ UNCHANGED <<pc, ovf, walked, skip_conversion, apiCalls, args>>

\* mutant: the name override is not assigned
assign_args_keep_name(v, cluster, name) == [v EXCEPT !.cluster = Some(cluster)]

\* vm.cluster = args.cluster; if args.name: vm.name = args.name
assign_args(v, cluster, name) ==
    [v EXCEPT !.cluster = Some(cluster),
              !.name = IF name # None /\ name[1] # <<>> THEN name ELSE @]

\* convert_disks returns; main assigns the cluster and the name override and
\* builds the connection
AssignArgs ==
    /\ Running /\ pc = "convert_disks" /\ next_disk > Len(vm.disks)
    /\ \E cluster \in Clusters, name \in NameArgs :
          /\ args' = [cluster |-> Some(cluster), name |-> name]
          /\ vm' = assign_args(vm, cluster, name)
    /\ pc' = "connection_test"
    /\ UNCHANGED <<ovf, walked, err, skip_conversion, next_disk, toolCalls, apiCalls>>

ApiCall(service, arg) == [call |-> service, arg |-> arg]

\* connection.test(raise_exception=True)
ConnectionTest ==
    /\ Running /\ pc = "connection_test"
    /\ apiCalls' = Append(apiCalls, ApiCall("test", <<>>))
    /\ \E ok \in BOOLEAN :
          IF ok THEN pc' = "check_cluster_exists" /\ UNCHANGED err
          ELSE err' = Error("sdk.Error", "connection test failed", <<>>) /\ UNCHANGED pc
    /\ UNCHANGED <<ovf, vm, walked, skip_conversion, next_disk, toolCalls, args>>

\* check_cluster_exists(vm.cluster, connection)
CheckClusterExists ==
    /\ Running /\ pc = "check_cluster_exists"
    /\ apiCalls' = Append(apiCalls, ApiCall("clusters.get", <<vm.cluster[1]>>))
    /\ \E found \in BOOLEAN :
          IF found THEN pc' = "add_vm_to_ovirt" /\ UNCHANGED err
          ELSE /\ err' = Error("RuntimeError", "Cluster was not found, id: %s",
                               <<vm.cluster[1]>>)
               /\ UNCHANGED pc
    /\ UNCHANGED <<ovf, vm, walked, skip_conversion, next_disk, toolCalls, args>>

\* add_vm_to_ovirt(vm, connection)
AddVmToOvirt ==
    /\ Running /\ pc = "add_vm_to_ovirt"
    /\ LET e == add_vm_to_ovirt_error(vm)
       IN  IF e # NoError
           THEN err' = e /\ UNCHANGED <<pc, apiCalls>>
           ELSE /\ apiCalls' = Append(apiCalls, ApiCall("vms.add", <<VmRequest(vm)>>))
                /\ \E accepted \in BOOLEAN :
                      IF accepted THEN pc' = "done" /\ UNCHANGED err
                      ELSE err' = Error("sdk.Error", "vms.add rejected", <<>>) /\ UNCHANGED pc
    /\ UNCHANGED <<ovf, vm, walked, skip_conversion, next_disk, toolCalls, args>>

Next ==
    \/ ReadOvfEnvelope(EnvelopeChildren)
    \/ ReadOvfVirtualSystem(VirtualSystemChildren)
    \/ ReadHardware(HardwareChildren)
    \/ EndHardware
    \/ EndVirtualSystem
    \/ EndEnvelope
    \/ ConvertDisk
    \/ AssignArgs
    \/ ConnectionTest
    \/ CheckClusterExists
    \/ AddVmToOvirt

Spec == Init /\ [][Next]_vars

----------------------------------------------------------------------------
(* The reader run to the end on a whole document, for the specifications   *)
(* that start after read_xen_ovf has returned: the VM that the walk of     *)
(* `elems` leaves, each element dispatched by the loop the walk is in.     *)

loop_handlers(loop) ==
    CASE loop = "read_envelope" -> envelope_handlers
      [] loop = "read_virtual_system" -> virtual_system_handlers
      [] loop = "read_hardware" -> hardware_handlers

RECURSIVE ReadElements(_, _, _, _)
ReadElements(elems, loop, v, doc) ==
    IF elems = <<>> THEN v
    ELSE LET r == handle_elem(Head(elems), loop_handlers(loop), "tag", v, doc)
         IN  ReadElements(Tail(elems), IF r.enter # "" THEN r.enter ELSE loop, r.vm, doc)

\* Envelope > VirtualSystem > (Name, VirtualHardwareSection > (CPU, memory, items))
MinimalEnvelope(name, items) ==
    <<Element(prefix_ns("ovf", "VirtualSystem")),
      TextElement(prefix_ns("ovf", "Name"), name),
      Element(prefix_ns("ovf", "VirtualHardwareSection")),
      CpuItem(<<"4">>),
      MemoryItem(<<"5", "1", "2">>, MEGABYTES)>> \o items

\* sections in which the Disks "1" and "2" both resolve
TwoDiskSections ==
    [disks |-> <<Disk("1", "f1", "True"), Disk("2", "f2", "false")>>,
     files |-> <<File("f1", "disk1.vhd"), File("f2", "disk2.vhd")>>]

----------------------------------------------------------------------------
(* SpecConvert: main() from the call of convert_disks on, for the VMs that *)
(* read_xen_ovf returns on the minimal envelopes with up to MaxDisks        *)
(* storage items.                                                          *)

InitConvert ==
    /\ ovf = TwoDiskSections
    /\ \E items \in SeqsUpTo({StorageItem(id, "Hard disk") : id \in {"1", "2"}}, MaxDisks) :
          /\ walked = MinimalEnvelope(<<"v", "m", "1">>, items)
          /\ vm = ReadElements(walked, "read_envelope", VM, ovf)
    /\ pc = "convert_disks"
    /\ err = NoError
    /\ skip_conversion \in BOOLEAN
    /\ next_disk = 1
    /\ toolCalls = <<>>
    /\ apiCalls = <<>>
    /\ args = NoArgs

NextConvert ==
    \/ ConvertDisk
    \/ AssignArgs
    \/ ConnectionTest
    \/ CheckClusterExists
    \/ AddVmToOvirt

SpecConvert == InitConvert /\ [][NextConvert]_vars

----------------------------------------------------------------------------
(* SpecResolve: _read_hw_disk on every DiskSection and References of at    *)
(* most MaxDescriptors descriptors: the reader stands in the loop of       *)
(* _read_hardware and the next children are STORAGE_EXTENT items.          *)

DiskDescriptors == {Disk("1", "f1", "True"), Disk("1", "f2", "false"), Disk("2", "f1", "true")}

FileDescriptors == {File("f1", "disk1.vhd"), File("f1", "copy.vhd"), File("f2", "disk2.vhd")}

InitResolve ==
    /\ \E ds \in SeqsUpTo(DiskDescriptors, MaxDescriptors),
          fs \in SeqsUpTo(FileDescriptors, MaxDescriptors) :
          ovf = [disks |-> ds, files |-> fs]
    /\ walked = <<Element(prefix_ns("ovf", "VirtualSystem")),
                  Element(prefix_ns("ovf", "VirtualHardwareSection"))>>
    /\ vm = ReadElements(walked, "read_envelope", VM, ovf)
    /\ pc = "read_hardware"
    /\ err = NoError
    /\ skip_conversion = FALSE
    /\ next_disk = 1
    /\ toolCalls = <<>>
    /\ apiCalls = <<>>
    /\ args = NoArgs

NextResolve == ReadHardware(StorageItems)

SpecResolve == InitResolve /\ [][NextResolve]_vars

----------------------------------------------------------------------------
(* SpecName: add_vm_to_ovirt on every name of at most MaxNameLen           *)
(* characters of NameChars.                                                *)

NameChars == {"a", "Z", "7", "_", ".", "-", " ", "/", "U+00E9"}

InitName ==
    /\ ovf = XenSections
    /\ walked = MinimalEnvelope(<<"v", "m", "1">>, <<>>)
    /\ \E name \in SeqsUpTo(NameChars, MaxNameLen) :
          vm = [ReadElements(walked, "read_envelope", VM, ovf)
                    EXCEPT !.name = Some(name), !.cluster = Some("cluster-1")]
    /\ pc = "add_vm_to_ovirt"
    /\ err = NoError
    /\ skip_conversion = FALSE
    /\ next_disk = 1
    /\ toolCalls = <<>>
    /\ apiCalls = <<ApiCall("test", <<>>), ApiCall("clusters.get", <<"cluster-1">>)>>
    /\ args = [cluster |-> Some("cluster-1"), name |-> None]

NextName == AddVmToOvirt

SpecName == InitName /\ [][NextName]_vars

----------------------------------------------------------------------------
(* Vocabulary of the properties *)

----------------------------------------------------------------------------
(* SpecTopology: main() on the envelopes with a name, a CPU item, a memory *)
(* item and at most one 'platform' configuration, whose Value is made of   *)
(* up to MaxPairs parts joined by ';'.                                     *)

\* the parts of a platform Value: pairs, the empty part that a trailing or a
\* doubled ';' leaves, and a part without '='
PlatformParts ==
    {<<"cores-per-socket", "=", "2">>,
     <<"cores-per-socket", "=", "0">>,
     <<"nx", "=", "true">>,
     <<"hardware_platform_version", "=", "9">>,
     <<>>,
     <<"nx">>}

RECURSIVE Join(_)
Join(parts) ==
    IF Len(parts) = 1 THEN parts[1] ELSE parts[1] \o <<";">> \o Join(Tail(parts))

TopologyValues == {Join(ps) : ps \in SeqsUpTo(PlatformParts, MaxPairs) \ {<<>>}}

\* xenovf:Value/text() of an empty Value is no text node at all
TopologyConfigs ==
    {OtherConfig("platform", IF value = <<>> THEN None ELSE Some(value)) :
        value \in TopologyValues}

InitTopology ==
    /\ ovf = XenSections
    /\ \E cpu \in CpuItems :
          walked = <<Element(prefix_ns("ovf", "VirtualSystem")),
                     TextElement(prefix_ns("ovf", "Name"), <<"v", "m", "1">>),
                     Element(prefix_ns("ovf", "VirtualHardwareSection")),
                     cpu,
                     MemoryItem(<<"5", "1", "2">>, MEGABYTES)>>
    /\ vm = ReadElements(walked, "read_envelope", VM, ovf)
    /\ pc = "read_hardware"
    /\ err = NoError
    /\ skip_conversion = FALSE
    /\ next_disk = 1
    /\ toolCalls = <<>>
    /\ apiCalls = <<>>
    /\ args = NoArgs

NextTopology ==
    \/ (\A i \in 1..Len(walked) : ~IsPlatform(walked[i])) /\ ReadHardware(TopologyConfigs)
    \/ EndHardware
    \/ EndVirtualSystem
    \/ EndEnvelope
    \/ AssignArgs
    \/ ConnectionTest
    \/ CheckClusterExists
    \/ AddVmToOvirt

SpecTopology == InitTopology /\ [][NextTopology]_vars

Last(s) == s[Len(s)]

ReadLoops == {"read_envelope", "read_virtual_system", "read_hardware"}

\* this step hands one more element to handle_elem
Dispatches == Len(walked') = Len(walked) + 1

Cpus(w) == SelectSeq(w, IsCpuItem)
Memories(w) == SelectSeq(w, IsMemoryItem)
Names(w) == SelectSeq(w, IsName)

DuplicateElement(e) ==
    /\ e.type = "RuntimeError"
    /\ e.msg \in {"OVF contains multiple CPU elements.", "OVF contains multiple memory elements."}

UnsupportedUnits(e) == e.type = "RuntimeError" /\ e.msg = "Memory units are not MB"

MissingReference(e) == e = IndexError

\* content that the claims call unknown or ignorable: an element whose tag has no
\* handler in the loop that meets it or an inert one, an Item of another resource
\* type than CPU, MEMORY, STORAGE_EXTENT, an other-configuration element with
\* another Name than "platform"
InertHandlers == {"noop_handler", "ignore_and_warn"}

IsOtherConfig(e) == e.tag = prefix_ns("xenovf", "VirtualSystemOtherConfigurationData")

Ignorable(e, loop) ==
    IF IsItem(e) /\ loop = "read_hardware"
    THEN ResourceTypeOf(e) \notin {CPU, MEMORY, STORAGE_EXTENT}
    ELSE IF IsOtherConfig(e) /\ loop = "read_hardware"
    THEN e.Name # None /\ e.Name[1] # "platform"
    ELSE \/ e.tag \notin DOMAIN loop_handlers(loop)
         \/ loop_handlers(loop)[e.tag] \in InertHandlers

\* the elements of a walk that is in no loop: ignorable in every loop
IgnorableAnywhere(e) == \A loop \in ReadLoops : Ignorable(e, loop)

IsSection(e) ==
    e.tag \in {prefix_ns("ovf", "VirtualSystem"), prefix_ns("ovf", "VirtualHardwareSection")}

----------------------------------------------------------------------------
(* C1 *)

\* the walk so far is that of an envelope made of sections, Name elements, at
\* most one CPU item, at most one memory item (in megabytes) and ignorable
\* content only
MinimalSoFar(w) ==
    /\ \A i \in 1..Len(w) :
          \/ IsSection(w[i]) \/ IsName(w[i]) \/ IsCpuItem(w[i]) \/ IsMemoryItem(w[i])
          \/ IgnorableAnywhere(w[i])
    /\ Len(Cpus(w)) <= 1
    /\ Len(Memories(w)) <= 1
    /\ \A i \in 1..Len(Memories(w)) : Memories(w)[i].rasd.AllocationUnits = <<MEGABYTES>>

MinimalEnvelopeWalked(w) ==
    MinimalSoFar(w) /\ Len(Names(w)) >= 1 /\ Len(Cpus(w)) = 1 /\ Len(Memories(w)) = 1

\* C1: on every envelope that contains a Name element, exactly one CPU item and
\* exactly one memory item in 'byte * 2^20', the other elements being unknown or
\* ignorable, in any order: no element of the walk raises, the required-field
\* check passes, and the VM that read_xen_ovf returns carries the Name text, the
\* CPU item's quantity and the memory item's quantity * 1024 * 1024.
C1_MinimalEnvelopeParses ==
    /\ (pc \in ReadLoops /\ err # NoError) => ~MinimalSoFar(walked)
    /\ pc = "check_required_fields" => ~MinimalEnvelopeWalked(walked)
    /\ (pc = "convert_disks" /\ MinimalEnvelopeWalked(walked)) =>
          /\ err = NoError
          /\ vm.name = Last(Names(walked)).text
          /\ vm.cpu_count = Some(int(Cpus(walked)[1].rasd.VirtualQuantity[1]))
          /\ vm.memory_bytes =
                Some(int(Memories(walked)[1].rasd.VirtualQuantity[1]) * 1024 * 1024)

\* read_xen_ovf has returned the VM of an envelope whose memory item stands before
\* its CPU item and its Name, with an unknown element among them
C1_Witness ==
    /\ pc = "convert_disks" /\ err = NoError
    /\ MinimalEnvelopeWalked(walked)
    /\ \E i, j, k, l \in 1..Len(walked) :
          /\ i < j /\ j < k /\ k < l
          /\ IsMemoryItem(walked[i]) /\ IgnorableAnywhere(walked[j])
          /\ IsCpuItem(walked[k]) /\ IsName(walked[l])
    /\ vm.cpu_count = Some(3) /\ vm.memory_bytes = Some(536870912)
    /\ vm.name = Some(<<"v", "m", "1">>)

----------------------------------------------------------------------------
(* C2 *)

\* C2: whenever a CPU item is dispatched after an earlier CPU item, or a memory
\* item after an earlier memory item, wherever the earlier one stands, the step
\* raises the duplicate-element error and leaves the VM (so the value the first
\* item stored) as it was; and a run that met two CPU items or two memory items
\* has ended with that error inside the reader: no VM is returned.
C2_SecondItemIsDuplicate ==
    /\ [][(Dispatches /\ \/ (IsCpuItem(Last(walked')) /\ Cpus(walked) # <<>>)
                         \/ (IsMemoryItem(Last(walked')) /\ Memories(walked) # <<>>))
             => /\ DuplicateElement(err')
                /\ vm' = vm
                /\ pc' = "read_hardware"]_vars
    /\ []((Len(Cpus(walked)) > 1 \/ Len(Memories(walked)) > 1)
             => DuplicateElement(err) /\ pc = "read_hardware")

\* a second memory item of another quantity, met after a CPU item that followed
\* the first, has raised the error and the first quantity is still the VM's
C2_Witness ==
    /\ err.msg = "OVF contains multiple memory elements."
    /\ \E i, j, k \in 1..Len(walked) :
          /\ i < j /\ j < k /\ k = Len(walked)
          /\ IsMemoryItem(walked[i]) /\ IsCpuItem(walked[j]) /\ IsMemoryItem(walked[k])
          /\ walked[i].rasd.VirtualQuantity = <<<<"5", "1", "2">>>>
          /\ walked[k].rasd.VirtualQuantity = <<<<"1">>>>
    /\ vm.memory_bytes = Some(536870912)

----------------------------------------------------------------------------
(* C3 *)

NotMegabytes(e) == IsMemoryItem(e) /\ e.rasd.AllocationUnits # <<MEGABYTES>>

\* C3 as stated: a memory item whose units are not 'byte * 2^20' raises the
\* unsupported-units error whatever was processed before it, and does not assign
\* memory_bytes.
C3_Original ==
    [][(Dispatches /\ NotMegabytes(Last(walked')))
          => /\ UnsupportedUnits(err')
             /\ vm'.memory_bytes = vm.memory_bytes]_vars

\* C3, amended: a memory item whose units are not 'byte * 2^20' always fails the
\* parse, whatever its quantity, and does not assign memory_bytes; the error is the
\* unsupported-units error when no memory item was processed before it, and the
\* duplicate-element error when one was.
C3_BadUnitsFail ==
    [][(Dispatches /\ NotMegabytes(Last(walked')))
          => /\ IF Memories(walked) = <<>> THEN UnsupportedUnits(err')
                ELSE DuplicateElement(err')
             /\ vm' = vm
             /\ pc' = "read_hardware"]_vars

\* a memory item in 'MegaBytes' met after a CPU item and a disk has raised the
\* unsupported-units error
C3_Witness ==
    /\ UnsupportedUnits(err)
    /\ NotMegabytes(Last(walked))
    /\ vm.cpu_count # None /\ vm.disks # <<>>
    /\ vm.memory_bytes = None

----------------------------------------------------------------------------
(* C4 *)

\* no Disk of the document declares the item's instance ID, or the Disks that
\* declare it all name a File that the document does not declare
Dangling(e, doc) ==
    \A i \in 1..Len(doc.disks) :
        doc.disks[i].diskId = e.rasd.InstanceID[1]
            => \A j \in 1..Len(doc.files) : doc.files[j].id # doc.disks[i].fileRef

\* C4: a STORAGE_EXTENT item whose instance ID matches no Disk, or whose Disk
\* names a File that is not declared, raises the missing-reference error (the
\* IndexError of the empty lookup), appends no Disk record, and the run ends
\* inside the reader: no VM is returned.
C4_DanglingReferenceFails ==
    [][(Dispatches /\ IsStorageItem(Last(walked')) /\ Dangling(Last(walked'), ovf))
          => /\ MissingReference(err')
             /\ vm' = vm
             /\ pc' = "read_hardware"]_vars

\* the item "2", whose Disk names the undeclared File "f9", has raised the error
\* after the item "1" was resolved, and the VM still has that one disk
C4_Witness ==
    /\ MissingReference(err)
    /\ IsStorageItem(Last(walked)) /\ Last(walked).rasd.InstanceID = <<"2">>
    /\ Len(vm.disks) = 1 /\ vm.disks[1].id = "1"
    /\ pc = "read_hardware"

----------------------------------------------------------------------------
(* C5 *)

Orders(n) == {p \in [1..n -> 1..n] : \A i, j \in 1..n : p[i] = p[j] => i = j}

Permuted(seq, p) == [i \in 1..Len(seq) |-> seq[p[i]]]

\* the documents that declare the same Disks and Files in another order
Reordered(doc) ==
    {[disks |-> Permuted(doc.disks, p), files |-> Permuted(doc.files, q)] :
        p \in Orders(Len(doc.disks)), q \in Orders(Len(doc.files))}

\* what _read_hw_disk makes of the item alone: the record it appends, or its error
Resolved(e, doc) ==
    LET r == _read_hw_disk(e, VM, doc) IN [disks |-> r.vm.disks, err |-> r.err]

StorageItemsWalked == SelectSeq(walked, IsStorageItem)

\* the records of the VM are those of the items walked, in their order, each what
\* the item resolves to on its own: the place of an Item among the Items does not
\* change its record
EachItemOnItsOwn ==
    LET items == StorageItemsWalked
        n == IF err = NoError THEN Len(items) ELSE Len(items) - 1
    IN  /\ Len(vm.disks) = n
        /\ \A k \in 1..n : <<vm.disks[k]>> = Resolved(items[k], ovf).disks
        /\ err # NoError => Resolved(items[n + 1], ovf).err = err

\* the item's ID is declared by at most one Disk, and the fileRef of that Disk by
\* at most one File
DeclaredOnce(e, doc) ==
    /\ Cardinality({i \in 1..Len(doc.disks) : doc.disks[i].diskId = e.rasd.InstanceID[1]}) <= 1
    /\ \A i \in 1..Len(doc.disks) :
          doc.disks[i].diskId = e.rasd.InstanceID[1]
              => Cardinality({j \in 1..Len(doc.files) :
                                 doc.files[j].id = doc.disks[i].fileRef}) <= 1

\* C5 as stated: the record of every STORAGE_EXTENT item is the same under every
\* order of the Items, of the Disks and of the Files.
C5_Original ==
    /\ EachItemOnItsOwn
    /\ \A k \in 1..Len(StorageItemsWalked) : \A doc \in Reordered(ovf) :
          Resolved(StorageItemsWalked[k], doc) = Resolved(StorageItemsWalked[k], ovf)

\* C5, amended: for every STORAGE_EXTENT item whose instance ID is declared by at
\* most one Disk, the fileRef of that Disk being declared by at most one File, the
\* resolved record (id, name, bootable, file) is the same under every order of the
\* Items, of the Disks and of the Files.
C5_OrderIndependent ==
    /\ EachItemOnItsOwn
    /\ \A k \in 1..Len(StorageItemsWalked) :
          DeclaredOnce(StorageItemsWalked[k], ovf)
              => \A doc \in Reordered(ovf) :
                    Resolved(StorageItemsWalked[k], doc) = Resolved(StorageItemsWalked[k], ovf)

\* two items resolved, the second one through a Disk and a File that are both
\* declared second in their sections
C5_Witness ==
    /\ err = NoError /\ Len(vm.disks) = 2
    /\ Len(ovf.disks) = 2 /\ Len(ovf.files) = 2
    /\ DeclaredOnce(Last(walked), ovf)
    /\ ovf.disks[1].diskId # vm.disks[2].id /\ ovf.disks[2].diskId = vm.disks[2].id
    /\ ovf.files[1].id # ovf.disks[2].fileRef /\ ovf.files[2].href = vm.disks[2].file
    /\ vm.disks[1].id # vm.disks[2].id

----------------------------------------------------------------------------
(* C6 *)

\* C6: an element with an unrecognized tag in any of the three loops, an Item of
\* another resource type than CPU, MEMORY, STORAGE_EXTENT, and an
\* other-configuration element with another Name than "platform" are skipped:
\* the step raises nothing, leaves the VM as it was, and the walk goes on in the
\* same loop.
C6_IgnorableIsSkipped ==
    [][(Dispatches /\ Ignorable(Last(walked'), pc))
          => /\ err' = NoError
             /\ vm' = vm
             /\ pc' = pc]_vars

\* an unknown tag, an Item of type 17 and an unknown configuration were walked in
\* the hardware section before a CPU item, which was then read
C6_Witness ==
    /\ err = NoError /\ pc = "read_hardware" /\ vm.cpu_count = Some(4)
    /\ \E i, j, k \in 1..Len(walked) :
          /\ walked[i].tag = prefix_ns("vssd", "Caption")
          /\ IsItem(walked[j]) /\ ResourceTypeOf(walked[j]) = DISK_DRIVE
          /\ IsOtherConfig(walked[k]) /\ walked[k].Name = Some("vgpu_pci")
          /\ i < Len(walked) /\ j < Len(walked) /\ k < Len(walked)
    /\ IsCpuItem(Last(walked))

----------------------------------------------------------------------------
(* C7 *)

RequiredFieldMissing(e) ==
    /\ e.type = "RuntimeError"
    /\ e.msg \in {"Name is missing!", "CPU count information is missing!",
                  "Memory information is missing!"}

\* the step in which the walk of the Envelope ends
EndOfPass == pc = "read_envelope" /\ walked' = walked /\ pc' # pc

\* C7: at the end of the pass the validator raises the required-field error
\* exactly when name, cpu_count or memory_bytes is unset, and the error is that of
\* the first unset one in the order name, cpu_count, memory_bytes; a VM with the
\* three set is returned as it is, whatever its disks and cores-per-socket.
C7_RequiredFields ==
    [][EndOfPass
          => /\ RequiredFieldMissing(err')
                    <=> (vm.name = None \/ vm.cpu_count = None \/ vm.memory_bytes = None)
             /\ vm.name = None => err'.msg = "Name is missing!"
             /\ (vm.name # None /\ vm.cpu_count = None)
                    => err'.msg = "CPU count information is missing!"
             /\ (vm.name # None /\ vm.cpu_count # None /\ vm.memory_bytes = None)
                    => err'.msg = "Memory information is missing!"
             /\ (vm.name # None /\ vm.cpu_count # None /\ vm.memory_bytes # None)
                    => err' = NoError /\ pc' = "convert_disks" /\ vm' = vm]_vars

\* a VM with a name and neither CPU count nor memory was refused for its CPU count
C7_Witness ==
    /\ pc = "check_required_fields"
    /\ vm.name # None /\ vm.cpu_count = None /\ vm.memory_bytes = None
    /\ err.msg = "CPU count information is missing!"

\* a VM with the three fields, no disk and the default cores-per-socket was returned
C7_WitnessAccepted ==
    /\ pc = "convert_disks" /\ err = NoError
    /\ vm.disks = <<>> /\ vm.cores_pre_socket = 1
    /\ \A i \in 1..Len(walked) : ~IsPlatform(walked[i])

----------------------------------------------------------------------------
(* C8 *)

\* the disks the loop of convert_disks has gone past
Visited == 1..(next_disk - 1)

\* C8: with skip_conversion on, qemu-img is never invoked, every disk the loop
\* has visited has qcow_file = <disk-id>.qcow2, and when convert_disks has
\* returned that is every disk of the VM.
C8_SkipConversion ==
    skip_conversion
        => /\ toolCalls = <<>>
           /\ err = NoError \/ pc # "convert_disks"
           /\ \A i \in 1..Len(vm.disks) :
                 IF i \in Visited
                 THEN vm.disks[i].qcow_file = Some(<<vm.disks[i].id, ".qcow2">>)
                 ELSE vm.disks[i].qcow_file = None
           /\ pc # "convert_disks" => Visited = 1..Len(vm.disks)

\* convert_disks returned for a VM of two disks without a call of the tool
C8_Witness ==
    /\ skip_conversion /\ pc = "connection_test"
    /\ Len(vm.disks) = 2 /\ vm.disks[1].id # vm.disks[2].id
    /\ vm.disks[2].qcow_file = Some(<<vm.disks[2].id, ".qcow2">>)

----------------------------------------------------------------------------
(* C9 *)

ConversionFailed == err.type = "RuntimeError" /\ err.msg = "Disk conversion failed"

\* the error names the source file of the disk: the file is among its arguments
NamesFile(e, file) == \E i \in 1..Len(e.args) : e.args[i] = file

\* qemu-img is invoked once per disk in the order of vm.disks, with the fixed
\* arguments, the file of the disk and <disk-id>.qcow2
InDeclarationOrder ==
    /\ Len(toolCalls) <= Len(vm.disks)
    /\ \A i \in 1..Len(toolCalls) :
          toolCalls[i].argv = <<"qemu-img", "convert", "-f", "vpc", "-O", "qcow2",
                                vm.disks[i].file, <<vm.disks[i].id, ".qcow2">> >>

\* no invocation follows one that exited non-zero, and that one ends convert_disks
\* with the conversion error
StopsAtFirstFailure ==
    /\ \A i \in 1..(Len(toolCalls) - 1) : toolCalls[i].status = 0
    /\ (toolCalls # <<>> /\ Last(toolCalls).status # 0)
          => ConversionFailed /\ pc = "convert_disks"
    /\ ConversionFailed => toolCalls # <<>> /\ Last(toolCalls).status # 0

\* a disk has qcow_file exactly when its invocation exited 0
QcowIffConverted ==
    \A i \in 1..Len(vm.disks) :
        IF i <= Len(toolCalls) /\ toolCalls[i].status = 0
        THEN vm.disks[i].qcow_file = Some(<<vm.disks[i].id, ".qcow2">>)
        ELSE vm.disks[i].qcow_file = None

\* C9, but for the content of the error: with skip_conversion off the disks are
\* converted one at a time in declaration order, the first non-zero exit stops
\* the loop with the conversion error, and a disk has qcow_file exactly when
\* its invocation exited 0.
C9_SequentialConversion ==
    ~skip_conversion => InDeclarationOrder /\ StopsAtFirstFailure /\ QcowIffConverted

\* C9: with skip_conversion off the disks are converted strictly in declaration
\* order, the first non-zero exit raises an error naming the offending source
\* file, no later disk is attempted, and a disk has qcow_file after the call
\* iff its invocation exited 0.
C9_FailureNamesFile ==
    ~skip_conversion
        => /\ InDeclarationOrder /\ StopsAtFirstFailure /\ QcowIffConverted
           /\ ConversionFailed => NamesFile(err, vm.disks[Len(toolCalls)].file)

\* the second of two disks failed after the first was converted
C9_WitnessSecondFails ==
    /\ ~skip_conversion /\ ConversionFailed
    /\ Len(vm.disks) = 2 /\ Len(toolCalls) = 2
    /\ vm.disks[1].qcow_file # None /\ vm.disks[2].qcow_file = None

\* the first of two disks failed and the second was never attempted
C9_WitnessFirstFails ==
    /\ ~skip_conversion /\ ConversionFailed
    /\ Len(vm.disks) = 2 /\ Len(toolCalls) = 1
    /\ vm.disks[1].qcow_file = None /\ vm.disks[2].qcow_file = None

----------------------------------------------------------------------------
(* C10 *)

\* non-empty, and only ASCII letters, digits, "_", "." and "-"
PlainName(name) ==
    /\ name # <<>>
    /\ \A i \in 1..Len(name) : name[i] \in AsciiLetters \cup Digits \cup {"_", ".", "-"}

InvalidName == err.type = "RuntimeError" /\ err.msg = INVALID_NAME

\* add_vm_to_ovirt has either raised or issued the request
NameDecided == err # NoError \/ pc = "done"

\* the name has been accepted: the request to add the VM was issued
NameAccepted == \E i \in 1..Len(apiCalls) : apiCalls[i].call = "vms.add"

\* C10: add_vm_to_ovirt accepts a name iff it is non-empty and consists only of
\* ASCII letters, digits, "_", "." and "-"; any other name raises the
\* invalid-name error before any API call that creates the VM.
C10_PlainNamesOnly ==
    (pc = "add_vm_to_ovirt" \/ pc = "done") /\ NameDecided
        => /\ InvalidName <=> ~PlainName(vm.name[1])
           /\ NameAccepted <=> PlainName(vm.name[1])

\* what the pattern does: a name is refused exactly when the pattern does not
\* match the whole of it, and then no request to add the VM is issued
C10_PatternDecides ==
    (pc = "add_vm_to_ovirt" \/ pc = "done") /\ NameDecided
        => /\ InvalidName <=> ~VM_NAME_PATTERN_fullmatch(vm.name[1])
           /\ NameAccepted <=> VM_NAME_PATTERN_fullmatch(vm.name[1])

\* a name with a non-ASCII letter was accepted
C10_WitnessNonAscii ==
    /\ NameAccepted /\ \E i \in 1..Len(vm.name[1]) : vm.name[1][i] = "U+00E9"

\* a name with a space was refused before the request
C10_WitnessRefused ==
    /\ InvalidName /\ ~NameAccepted /\ \E i \in 1..Len(vm.name[1]) : vm.name[1][i] = " "

----------------------------------------------------------------------------
(* C11 *)

ClusterNotFound == err.type = "RuntimeError" /\ err.msg = "Cluster was not found, id: %s"

\* main is past the assignment of args.cluster and args.name: the name of the VM
\* is the one add_vm_to_ovirt will be given
NameIsFinal == pc \in {"connection_test", "check_cluster_exists", "add_vm_to_ovirt", "done"}

\* C11: in every run in which the name of the VM does not pass the validation or
\* the cluster is not found, vms.add is never issued: not in the state in which
\* the error is raised (the run ends there), nor in any state of a run whose
\* final name is invalid or whose cluster check has not succeeded.
C11_ValidationBeforeCreation ==
    /\ (InvalidName \/ ClusterNotFound) => ~NameAccepted
    /\ (NameIsFinal /\ ~VM_NAME_PATTERN_fullmatch(vm.name[1])) => ~NameAccepted
    /\ NameAccepted
          => /\ pc \in {"add_vm_to_ovirt", "done"}
             /\ \E i, j \in 1..Len(apiCalls) :
                   /\ i < j
                   /\ apiCalls[i] = ApiCall("clusters.get", <<vm.cluster[1]>>)
                   /\ apiCalls[j].call = "vms.add"
             /\ Cardinality({i \in 1..Len(apiCalls) : apiCalls[i].call = "vms.add"}) = 1

\* the cluster was found and the name then refused: the run ended with the
\* connection tested, the cluster looked up and nothing created
C11_Witness ==
    /\ InvalidName
    /\ apiCalls = <<ApiCall("test", <<>>), ApiCall("clusters.get", <<vm.cluster[1]>>)>>

\* the cluster was not found: the run ended before add_vm_to_ovirt
C11_WitnessCluster ==
    /\ ClusterNotFound /\ pc = "check_cluster_exists" /\ ~NameAccepted

----------------------------------------------------------------------------
(* C12 *)

\* _check_required_fields has returned without raising
Validated ==
    pc \in {"convert_disks", "connection_test", "check_cluster_exists",
            "add_vm_to_ovirt", "done"}

RequiredFieldsSet(v) == v.name # None /\ v.cpu_count # None /\ v.memory_bytes # None

\* the step of main that assigns args.cluster and args.name
NameHandling == pc = "convert_disks" /\ pc' = "connection_test"

\* C12 as stated: once the validation has succeeded, name, cpu_count and
\* memory_bytes are set and no later step changes any of them.
C12_Original ==
    [][Validated
          => /\ RequiredFieldsSet(vm) /\ RequiredFieldsSet(vm')
             /\ vm'.name = vm.name
             /\ vm'.cpu_count = vm.cpu_count
             /\ vm'.memory_bytes = vm.memory_bytes]_vars

\* C12, amended: once the validation has succeeded, name, cpu_count and
\* memory_bytes are set; no later step changes cpu_count or memory_bytes; the
\* name is changed by the name handling only, to the non-empty override of the
\* command line, and by no step after it.
C12_FieldsSettled ==
    [][Validated
          => /\ RequiredFieldsSet(vm) /\ RequiredFieldsSet(vm')
             /\ vm'.cpu_count = vm.cpu_count
             /\ vm'.memory_bytes = vm.memory_bytes
             /\ \/ vm'.name = vm.name
                \/ /\ NameHandling
                   /\ args'.name # None /\ args'.name[1] # <<>>
                   /\ vm'.name = args'.name]_vars

\* the run came to its end with the name replaced by the override, and the CPU
\* count and the memory as they were read
C12_Witness ==
    /\ pc = "done"
    /\ args.name = Some(<<"v", "m", "2">>) /\ vm.name = args.name
    /\ Last(Names(walked)).text # vm.name
    /\ vm.cpu_count = Some(int(Cpus(walked)[1].rasd.VirtualQuantity[1]))
    /\ vm.memory_bytes = Some(int(Memories(walked)[1].rasd.VirtualQuantity[1]) * 1024 * 1024)

----------------------------------------------------------------------------
(* C13 *)

\* the sdk.types.Vm handed to vms.add
Request == (CHOOSE c \in {apiCalls[i] : i \in 1..Len(apiCalls)} : c.call = "vms.add").arg[1]

IsCoresPair(part) == Len(part) >= 2 /\ part[1] = "cores-per-socket" /\ part[2] = "="

\* the 'cores-per-socket' pairs of the platform Values of the envelope, in order
RECURSIVE CoresPairs(_)
CoresPairs(w) ==
    IF w = <<>> THEN <<>>
    ELSE (IF IsPlatform(Head(w)) /\ Head(w).Value # None
          THEN SelectSeq(split(Head(w).Value[1], ";"), IsCoresPair)
          ELSE <<>>) \o CoresPairs(Tail(w))

\* 1 by default, and the value of the 'cores-per-socket' pair when there is one
\* (of the last one, should there be several)
CoresPerSocket(w) ==
    IF CoresPairs(w) = <<>> THEN 1
    ELSE LET pair == Last(CoresPairs(w)) IN int(SubSeq(pair, 3, Len(pair)))

CpuCount(w) == int(Cpus(w)[1].rasd.VirtualQuantity[1])

\* C13: the topology of the creation request is sockets = cpu_count integer-
\* divided by cores_per_socket, cores = cores_per_socket, threads = 1, where
\* cores_per_socket is 1 when the envelope has no 'platform' configuration and
\* otherwise the value of the 'cores-per-socket' pair of its Value (1 when the
\* Value has no such pair), whatever the other pairs of the Value.
C13_Topology ==
    NameAccepted
        => /\ Request.topology =
                 [sockets |-> CpuCount(walked) \div CoresPerSocket(walked),
                  cores |-> CoresPerSocket(walked),
                  threads |-> 1]
           /\ (\A i \in 1..Len(walked) : ~IsPlatform(walked[i]))
                 => Request.topology =
                       [sockets |-> CpuCount(walked), cores |-> 1, threads |-> 1]

\* cpu_count 4 with 'cores-per-socket=2;hardware_platform_version=9' was mapped
\* to 2 sockets of 2 cores
C13_Witness ==
    /\ NameAccepted
    /\ Last(walked).Value = Some(<<"cores-per-socket", "=", "2", ";",
                                   "hardware_platform_version", "=", "9">>)
    /\ CpuCount(walked) = 4
    /\ Request.topology = [sockets |-> 2, cores |-> 2, threads |-> 1]

\* cpu_count 4 without a platform configuration was mapped to 4 sockets of 1 core
C13_WitnessDefault ==
    /\ NameAccepted
    /\ \A i \in 1..Len(walked) : ~IsPlatform(walked[i])
    /\ Request.topology = [sockets |-> 4, cores |-> 1, threads |-> 1]

----------------------------------------------------------------------------
(* C14 *)

\* C14: whenever a VM is mapped to a topology, cpu_count is evenly divisible by
\* cores_per_socket, and sockets * cores * threads of the request is cpu_count.
C14_EvenlyDivisible ==
    NameAccepted
        => /\ vm.cpu_count[1] % vm.cores_pre_socket = 0
           /\ Request.topology.sockets * Request.topology.cores * Request.topology.threads
                 = vm.cpu_count[1]

\* a VM of 3 CPUs and 2 cores per socket was mapped to 1 socket of 2 cores
C14_WitnessUneven ==
    /\ NameAccepted /\ vm.cpu_count = Some(3) /\ vm.cores_pre_socket = 2
    /\ Request.topology = [sockets |-> 1, cores |-> 2, threads |-> 1]

----------------------------------------------------------------------------
(* C15 *)

\* the walk of the envelope or the check of the required fields raised
ParseFailed == err # NoError /\ pc \in ReadLoops \cup {"check_required_fields"}

SomeConversionFailed == \E i \in 1..Len(toolCalls) : toolCalls[i].status # 0

AllConverted == \A i \in 1..Len(vm.disks) : vm.disks[i].qcow_file # None

\* C15: the stages happen in the order read, validation, conversion, mapping,
\* each after the one before it has succeeded: after a failed parse or
\* validation qemu-img has not been invoked and no API call made; qemu-img is
\* invoked only for a validated VM; an API call is made only when every disk
\* has its converted file; after a failed conversion no API call is made, so
\* vms.add is never issued.
C15_StagesInOrder ==
    /\ ParseFailed => toolCalls = <<>> /\ apiCalls = <<>>
    /\ toolCalls # <<>> => Validated /\ RequiredFieldsSet(vm)
    /\ apiCalls # <<>> => NameIsFinal /\ RequiredFieldsSet(vm) /\ AllConverted
    /\ SomeConversionFailed => ConversionFailed /\ pc = "convert_disks" /\ apiCalls = <<>>
    /\ ConversionFailed => ~NameAccepted

\* the envelope was read and validated, the conversion of its disk failed, and
\* no API call was made
C15_Witness ==
    /\ ConversionFailed /\ SomeConversionFailed
    /\ RequiredFieldsSet(vm) /\ Len(vm.disks) = 1
    /\ apiCalls = <<>>

\* the parse failed on a dangling disk reference after the name was read
C15_WitnessParse ==
    /\ ParseFailed /\ MissingReference(err) /\ vm.name # None
    /\ toolCalls = <<>> /\ apiCalls = <<>>

\* the run came to its end: read, validated, the disk converted, the VM added
C15_WitnessDone ==
    /\ pc = "done" /\ Len(toolCalls) = 1 /\ toolCalls[1].status = 0
    /\ Len(apiCalls) = 3

----------------------------------------------------------------------------
(* C16 *)

\* C16: in every VM that read_xen_ovf returned, the ids of the disks are pairwise
\* distinct, and so are the names of their converted files.
C16_DistinctDiskIds ==
    Validated
        => \A i, j \in 1..Len(vm.disks) :
              i # j => /\ vm.disks[i].id # vm.disks[j].id
                       /\ (vm.disks[i].qcow_file # None /\ vm.disks[j].qcow_file # None)
                             => vm.disks[i].qcow_file # vm.disks[j].qcow_file

\* two storage items of the same InstanceID gave two disks, both converted to
\* the same file
C16_WitnessSameArtifact ==
    /\ Len(vm.disks) = 2 /\ Len(toolCalls) = 2
    /\ toolCalls[1].status = 0 /\ toolCalls[2].status = 0
    /\ vm.disks[1].id = vm.disks[2].id
    /\ vm.disks[1].qcow_file = vm.disks[2].qcow_file
    /\ toolCalls[1].argv[8] = toolCalls[2].argv[8]

----------------------------------------------------------------------------
(* C17 *)

DivisionByZero == err.type = "ZeroDivisionError"

\* C17: in every state of the parse and in every VM returned, cores_per_socket
\* is a positive integer, and the division of the target mapper never divides
\* by zero.
C17_PositiveCores ==
    /\ vm.cores_pre_socket >= 1
    /\ ~DivisionByZero

\* the VM was read with cores_per_socket = 0, validated, its cluster found, and
\* add_vm_to_ovirt raised ZeroDivisionError
C17_WitnessZero ==
    /\ DivisionByZero /\ pc = "add_vm_to_ovirt"
    /\ vm.cores_pre_socket = 0 /\ RequiredFieldsSet(vm)
    /\ ~NameAccepted

----------------------------------------------------------------------------
(* C18 *)

\* a name override was supplied: args.name is a non-empty string
Override == args.name # None /\ args.name[1] # <<>>

EnvelopeName == Last(Names(walked)).text[1]

\* the run has come to the verdict of add_vm_to_ovirt on the name
NameJudged == pc \in {"add_vm_to_ovirt", "done"} /\ (InvalidName \/ NameAccepted)

\* C18: when a name override is supplied, the VM carries the override from the
\* name handling on, the request carries it, and it is the override that is
\* validated: the request is issued iff the override matches the pattern and
\* the invalid-name error raised iff it does not, whatever the envelope's name.
C18_OverrideIsValidated ==
    (NameIsFinal /\ Override)
        => /\ vm.name = args.name
           /\ NameAccepted => Request.name = args.name[1]
           /\ NameJudged => /\ NameAccepted <=> VM_NAME_PATTERN_fullmatch(args.name[1])
                            /\ InvalidName <=> ~VM_NAME_PATTERN_fullmatch(args.name[1])

\* the envelope's name is invalid, the override valid, and the VM was created
\* under the override
C18_Witness ==
    /\ pc = "done" /\ Override
    /\ ~VM_NAME_PATTERN_fullmatch(EnvelopeName)
    /\ Request.name = args.name[1]

\* the envelope's name is valid, the override invalid, and the name was refused
C18_WitnessRefused ==
    /\ InvalidName /\ Override /\ ~NameAccepted
    /\ VM_NAME_PATTERN_fullmatch(EnvelopeName)
    /\ err.args = <<args.name[1]>>

====
